---- MODULE Spec2Model ----
(***************************************************************************)
(* Embedding ingestion, vector store and similarity-weighted budget        *)
(* prediction of the policy-simulation backend                             *)
(* (src/backend/data_processor.py, budget_predictor.py, app.py).           *)
(*                                                                         *)
(* Numbers.  Vector components are integers in units of 1/Unit, so a unit  *)
(* vector has Euclidean norm Unit.  A cosine similarity is the dot product *)
(* of two such vectors, an integer in units of 1/(Unit*Unit).  Budgets,    *)
(* weights and averages that the code computes by float division are kept  *)
(* as exact fractions [num, den].                                          *)
(*                                                                         *)
(* data_processor.py line 190 lacks one closing parenthesis after          *)
(* os.path.dirname(__file__); the model follows the statements of the file *)
(* with that parenthesis restored.  Whether the CSV is then found is an    *)
(* input of load_csv_data (the status of the source table).                *)
(***************************************************************************)
EXTENDS Integers, Sequences, FiniteSets, TLC

\* ------------------------------------------------------------------ bounds
\* Texts in a batch handed to the provider, at most.
MaxBatch == 2

\* Scaled stand-in for the vector dimension (1536 in the source).
D == 5
\* Scaled stand-in for the minimum number of numeric tokens (100 in the source).
MIN_TOKENS == 3
\* Rows of the largest source table beyond TOPK.
ExtraRows == 2
\* Ingestion runs (calls of prepare_vector_database) in one behaviour.
MaxRuns == 2
\* Process restarts in one behaviour.
MaxRestarts == 1

\* ------------------------------------------------------- program constants
\* Config.MAX_RETRIES
MAX_RETRIES == 3

\* Config.TOPK
TOPK == 10
\* The number 1.0 of a vector component, in model units.
Unit == 20
\* Config.TAU = 0.1, as a similarity in units of 1/(Unit*Unit)
TAU == (Unit * Unit) \div 10
\* preprocess_csv_data: text length that must be exceeded
MinTextLen == 10

\* What os.environ.get("OPENAI_API_KEY") can give: None when the variable is
\* unset, the placeholder 'your-api-key-here', or a key of the provider.
Keys == { "unset", "placeholder", "real" }

\* Python's None; a present value is a record with isNone = FALSE.
None == [isNone |-> TRUE]

\* ------------------------------------------------------------ vector maths
RECURSIVE SumSeq(_)
SumSeq(s) == IF s = <<>> THEN 0 ELSE Head(s) + SumSeq(Tail(s))

Dot(u, v) == SumSeq([i \in 1..Len(u) |-> u[i] * v[i]])

\* Largest r with r*r <= n  (np.linalg.norm on exact squares).
ISqrt(n) == CHOOSE r \in 0..(n + 1) : r * r <= n /\ (r + 1) * (r + 1) > n

Norm(v) == ISqrt(Dot(v, v))

\* v / norm, in model units.
Scale(v, norm) == [i \in 1..Len(v) |-> (v[i] * Unit) \div norm]

Zeros(n) == [i \in 1..n |-> 0]

\* A short list of components written out as a D-dimensional vector.
Vec(s) == IF Len(s) >= D THEN SubSeq(s, 1, D) ELSE s \o Zeros(D - Len(s))

\* What np.random.normal(0, 0.1, 1536) can draw (the zero vector has
\* probability 0 and is left out).
RandomDraws == { Vec(<<2>>), Vec(<<0, 3>>) }

\* Mutant: the draw is returned as it is.
generate_random_embedding_raw(draw) == draw

\* generate_random_embedding: the draw divided by its norm.
generate_random_embedding(draw) ==
    IF Norm(draw) > 0 THEN Scale(draw, Norm(draw)) ELSE draw

\* np.random.normal(...) divided by its norm: some unit vector.
RandomUnitVectors == { generate_random_embedding(draw) : draw \in RandomDraws }

\* ------------------------------------------------------------ exceptions
Ok(v) == [exc |-> "none", val |-> v]
Raise(e) == [exc |-> e, val |-> None]

\* ------------------------------------------------------------ source table
\* A raw cell of a numeric column: a number, or something pd.to_numeric
\* cannot read (text, empty).
Num(n) == [isnum |-> TRUE, v |-> n]
NotNum == [isnum |-> FALSE, v |-> 0]
\* A raw text cell, by its length; NaN when the cell is empty.
Text(n) == [isnan |-> FALSE, len |-> n]
NaNText == [isnan |-> TRUE, len |-> 0]
\* The embedding_sum cell: the numeric tokens re.findall extracts from it,
\* the value NaN, or no such column at all (row.get default '').
Cell(tokens) == [kind |-> "str", tokens |-> tokens]
NaNCell == [kind |-> "nan", tokens |-> <<>>]
NoCell == [kind |-> "absent", tokens |-> <<>>]

SrcRow(id, budget, summary, issue, err, cell) ==
    [id |-> id, initial_budget |-> budget, summary_text |-> summary,
     issue_text |-> issue, error_rate |-> err, embedding_sum |-> cell]

\* Embedding cells whose normalised rows score 0.9, 0.5, 0.05 and 0.1 (= TAU)
\* against the first axis.
CellA == Cell(<<18, 6, 6, 2>>)
CellB == Cell(<<10, 10, 10, 10, 0, 0, 0>>)
CellC == Cell(<<1, 19, 5, 3, 2>>)
CellT == Cell(<<4, 36, 12, 12>>)
CellShort == Cell(<<5, 5>>)

\* Cells of the large table: pairwise different first components, among
\* them the zero vector and a vector opposite to the first axis.
BigCells ==
    << Cell(<<19, 5, 3, 2, 1>>),  Cell(<<18, 8, 2, 2, 2>>),
       Cell(<<17, 10, 3, 1, 1>>), Cell(<<0, 0, 0, 0>>),
       Cell(<<15, 13, 2, 1, 1>>), Cell(<<14, 14, 2, 2, 0>>),
       Cell(<<13, 15, 2, 1, 1>>), Cell(<<12, 16, 0, 0, 0>>),
       Cell(<<-16, 12, 0, 0, 0>>), Cell(<<10, 10, 10, 10, 0>>),
       CellT, CellC >>

\* The spec's concrete scenario: budgets 100, 200, 300, every row kept.
TblExample ==
    [status |-> "ok", cols |-> TRUE, rows |->
       << SrcRow(1, Num(100), Text(20), Text(0), Num(5), CellA),
          SrcRow(2, Num(200), Text(5), Text(15), Num(20), CellB),
          SrcRow(3, Num(300), NaNText, Text(11), NotNum, CellC) >>]

\* Rows dropped by the budget filter and by the text-length filter, a cell
\* with too few tokens and a score equal to TAU.
TblDrop ==
    [status |-> "ok", cols |-> TRUE, rows |->
       << SrcRow(1, Num(0), Text(20), Text(20), Num(5), CellA),
          SrcRow(2, Num(200), Text(10), NaNText, Num(40), CellB),
          SrcRow(3, Num(300), Text(11), Text(3), Num(60), CellT),
          SrcRow(4, NotNum, Text(30), Text(30), Num(10), CellC),
          SrcRow(5, Num(500), Text(12), Text(12), Num(30), CellShort) >>]

\* More rows than TOPK, every row kept.
TblBig ==
    [status |-> "ok", cols |-> TRUE, rows |->
       [i \in 1..(TOPK + ExtraRows) |->
          SrcRow(i, Num(100 * i), Text(20), Text(20), Num(5),
                 BigCells[((i - 1) % Len(BigCells)) + 1])]]

\* The table without the embedding_sum column.
TblNoEmbCol ==
    [status |-> "ok", cols |-> TRUE, rows |->
       << SrcRow(1, Num(100), Text(20), Text(20), Num(5), NoCell) >>]

TblEmpty == [status |-> "ok", cols |-> TRUE, rows |-> <<>>]
TblNoCols == [status |-> "ok", cols |-> FALSE, rows |-> TblExample.rows]
TblMissing == [status |-> "missing", cols |-> FALSE, rows |-> <<>>]
TblUnreadable == [status |-> "unreadable", cols |-> FALSE, rows |-> <<>>]

\* Cells of every kind next to each other: parsed cells with more tokens than
\* D, with exactly MIN_TOKENS and with exactly D tokens, and cells that are
\* NaN, empty, two tokens long and one token short of MIN_TOKENS.
CellLong == Cell([i \in 1..(D + 2) |-> IF i = 1 THEN 12 ELSE IF i = D + 1 THEN 16 ELSE 0])
CellMin == Cell([i \in 1..MIN_TOKENS |-> IF i = 2 THEN Unit ELSE 0])
CellFull == Cell([i \in 1..D |-> IF i = D THEN 3 * Unit ELSE 0])
CellAlmost == Cell([i \in 1..(MIN_TOKENS - 1) |-> 7])

TblCells ==
    [status |-> "ok", cols |-> TRUE, rows |->
       << SrcRow(1, Num(100), Text(20), Text(20), Num(5), CellLong),
          SrcRow(2, Num(200), Text(20), Text(20), Num(5), NaNCell),
          SrcRow(3, Num(300), Text(20), Text(20), Num(5), CellMin),
          SrcRow(4, Num(400), Text(20), Text(20), Num(5), Cell(<<>>)),
          SrcRow(5, Num(500), Text(20), Text(20), Num(5), CellShort),
          SrcRow(6, Num(600), Text(20), Text(20), Num(5), CellAlmost),
          SrcRow(7, Num(700), Text(20), Text(20), Num(5), CellFull) >>]

\* Every table keeps at least one row or has none.
SourceTables ==
    { TblExample, TblDrop, TblBig, TblNoEmbCol, TblEmpty, TblNoCols,
      TblMissing, TblUnreadable }

\* ------------------------------------------------------------ ingestion
\* pd.to_numeric(errors='coerce').fillna(0)
to_numeric(raw) == IF raw.isnum THEN raw.v ELSE 0

\* .fillna('').astype(str), by length
fill_text(raw) == IF raw.isnan THEN 0 ELSE raw.len

\* Mutant: the thresholds belong to the lower grade.
get_rating_inclusive(error_rate) ==
    IF error_rate = 0 THEN "B"
    ELSE IF error_rate <= 10 THEN "A"
    ELSE IF error_rate <= 30 THEN "B"
    ELSE IF error_rate <= 50 THEN "C"
    ELSE "D"

\* get_rating; error_rate in units of 1/100
get_rating(error_rate) ==
    IF error_rate = 0 THEN "B"
    ELSE IF error_rate < 10 THEN "A"
    ELSE IF error_rate < 30 THEN "B"
    ELSE IF error_rate < 50 THEN "C"
    ELSE "D"

\* The metadata record of one surviving source row (columns of the frame).
MetaRow(r) ==
    [id |-> r.id,
     initial_budget |-> to_numeric(r.initial_budget),
     summary_text |-> fill_text(r.summary_text),
     issue_text |-> fill_text(r.issue_text),
     error_rate |-> to_numeric(r.error_rate),
     rating |-> get_rating(to_numeric(r.error_rate)),
     year |-> 2024]

\* Row filter of preprocess_csv_data.
Survives(r) ==
    /\ to_numeric(r.initial_budget) > 0
    /\ \/ fill_text(r.summary_text) > MinTextLen
       \/ fill_text(r.issue_text) > MinTextLen

preprocess_csv_data(rows) ==
    LET kept == SelectSeq(rows, Survives)
    IN  [i \in 1..Len(kept) |-> MetaRow(kept[i])]

\* Mutant: a cell with exactly MIN_TOKENS tokens is refused.
parse_embedding_string_strict(tokens) ==
    IF Len(tokens) > MIN_TOKENS
    THEN [isNone |-> FALSE, embedding |->
            IF Len(tokens) > D THEN SubSeq(tokens, 1, D)
            ELSE IF Len(tokens) < D THEN tokens \o Zeros(D - Len(tokens))
            ELSE tokens]
    ELSE None

\* parse_embedding_string: None, or D numbers.
parse_embedding_string(tokens) ==
    IF Len(tokens) >= MIN_TOKENS
    THEN [isNone |-> FALSE, embedding |->
            IF Len(tokens) > D THEN SubSeq(tokens, 1, D)
            ELSE IF Len(tokens) < D THEN tokens \o Zeros(D - Len(tokens))
            ELSE tokens]
    ELSE None

\* One iteration of the loop of process_csv_embeddings; rnd is the vector
\* generate_random_embedding draws for this row.
RowEmbedding(cell, rnd) ==
    IF cell.kind = "str"
    THEN LET embedding_values == parse_embedding_string(cell.tokens)
         IN  IF ~embedding_values.isNone THEN embedding_values.embedding
             ELSE rnd
    ELSE rnd

\* The rows for which the loop calls generate_random_embedding.
NeedsRandom(df) ==
    {i \in 1..Len(df) :
       \/ df[i].embedding_sum.kind # "str"
       \/ parse_embedding_string(df[i].embedding_sum.tokens).isNone}

\* embeddings / norms, norms == 0 replaced by 1
NormalizeRow(v) == IF Norm(v) = 0 THEN v ELSE Scale(v, Norm(v))

\* process_csv_embeddings over the frame it is given.  With no rows
\* np.array([]) is one-dimensional, the norm over axis 1 raises, and the
\* handler calls generate_sample_embeddings, which the class does not define.
process_csv_embeddings(df, rnd) ==
    IF Len(df) = 0 THEN Raise("AttributeError")
    ELSE Ok([i \in 1..Len(df) |->
               NormalizeRow(RowEmbedding(df[i].embedding_sum,
                   IF i \in DOMAIN rnd THEN rnd[i] ELSE <<>>))])

\* create_sample_dataset: one record and one random unit row.  Budgets are
\* amounts in units of 1000 (50000000 in the source).
SampleRecord ==
    [id |-> 1, initial_budget |-> 50000, summary_text |-> 11,
     issue_text |-> 11, error_rate |-> 20, rating |-> "B", year |-> 2024]

create_sample_dataset(rnd) == [metadata |-> <<SampleRecord>>, embeddings |-> <<rnd>>]

\* load_csv_data: the pair it returns for a source table.  rnd are the
\* random vectors drawn for the rows, rnd0 the one of the fallback.
load_csv_data(table, rnd, rnd0) ==
    IF table.status # "ok" \/ ~table.cols
    THEN create_sample_dataset(rnd0)
    ELSE LET metadata == preprocess_csv_data(table.rows)
             embeddings == process_csv_embeddings(table.rows, rnd)
         IN  IF embeddings.exc # "none"
             THEN create_sample_dataset(rnd0)
             ELSE [metadata |-> metadata, embeddings |-> embeddings.val]

\* What load_csv_data can return: over the source tables and over the
\* vectors the random generator draws.
IngestionResults ==
    UNION { { load_csv_data(table, rnd, rnd0) :
                rnd \in [NeedsRandom(table.rows) -> RandomUnitVectors],
                rnd0 \in RandomUnitVectors } : table \in SourceTables }

\* ------------------------------------------------------------ artifacts
\* np.save: the .npy file holds the shape and the elements in row-major
\* (C) order.
np_save(arr) ==
    LET n == Len(arr)
        d == IF n = 0 THEN 0 ELSE Len(arr[1])
    IN  [shape |-> <<n, d>>,
         data |-> [k \in 1..(n * d) |-> arr[((k - 1) \div d) + 1][((k - 1) % d) + 1]]]

\* Mutant: the elements are read back in column-major (Fortran) order.
np_load_fortran(file) ==
    [i \in 1..file.shape[1] |->
       [j \in 1..file.shape[2] |-> file.data[(j - 1) * file.shape[1] + i]]]

\* np.load: the array of the stored shape over the stored elements.
np_load(file) ==
    [i \in 1..file.shape[1] |->
       [j \in 1..file.shape[2] |-> file.data[(i - 1) * file.shape[2] + j]]]

\* pickle.dump of the metadata frame: its column names and, per column, the
\* values of the rows in positional order.
pickle_dump(df) ==
    LET columns == IF Len(df) = 0 THEN {} ELSE DOMAIN df[1]
    IN  [nrows |-> Len(df), columns |-> columns,
         blocks |-> [c \in columns |-> [i \in 1..Len(df) |-> df[i][c]]]]

\* pickle.load: the frame rebuilt from the stored columns.
pickle_load(file) ==
    [i \in 1..file.nrows |-> [c \in file.columns |-> file.blocks[c][i]]]

\* ------------------------------------------------------- similarity engine
\* Query embeddings: the zero vector, an unnormalised vector along the first
\* axis and a unit vector along the second.
QueryVectors == { Vec(<<0>>), Vec(<<2 * Unit>>), Vec(<<0, Unit>>) }

Min(a, b) == IF a < b THEN a ELSE b

\* calculate_similarity: one score per stored row.
calculate_similarity(query_embedding, project_embeddings) ==
    LET query_norm == Norm(query_embedding)
        q == IF query_norm > 0 THEN Scale(query_embedding, query_norm)
             ELSE query_embedding
    IN  [i \in 1..Len(project_embeddings) |-> Dot(project_embeddings[i], q)]

\* np.argsort(similarities)[::-1]: the row indices by descending score.
\* np.argsort uses an unstable sort, so the order of equal scores depends
\* on the numpy build: ties is "low" (lower row first) or "high".
argsort_desc(similarities, ties) ==
    LET n == Len(similarities)
        Before(j, i) ==
            \/ similarities[j] > similarities[i]
            \/ /\ similarities[j] = similarities[i]
               /\ IF ties = "low" THEN j < i ELSE j > i
        Rank(i) == Cardinality({j \in 1..n : Before(j, i)}) + 1
    IN  [r \in 1..n |-> CHOOSE i \in 1..n : Rank(i) = r]

\* Mutant: the [:top_k] cut is missing.
find_similar_projects_nocut(query_embedding, project_embeddings, top_k, ties) ==
    LET similarities == calculate_similarity(query_embedding, project_embeddings)
        sorted == argsort_desc(similarities, ties)
    IN  [similarities |-> [r \in 1..Len(sorted) |-> similarities[sorted[r]]],
         indices |-> sorted]

\* find_similar_projects: (similarities[top_indices], top_indices).
find_similar_projects(query_embedding, project_embeddings, top_k, ties) ==
    LET similarities == calculate_similarity(query_embedding, project_embeddings)
        sorted == argsort_desc(similarities, ties)
        top_indices == SubSeq(sorted, 1, Min(top_k, Len(sorted)))
    IN  [similarities |-> [r \in 1..Len(top_indices) |-> similarities[top_indices[r]]],
         indices |-> top_indices]

\* get_project_by_index (rows are numbered from 1 here, from 0 in the code).
get_project_by_index(meta, index) ==
    IF meta.isNone THEN Raise("ValueError")
    ELSE IF index > Len(meta.rows) THEN Raise("ValueError")
    ELSE Ok(meta.rows[index])

\* Mutant: candidates beyond the metadata are skipped.
get_projects_by_indices_in_range(meta, indices) ==
    IF meta.isNone THEN Raise("ValueError")
    ELSE LET within(index) == index <= Len(meta.rows)
             kept == SelectSeq(indices, within)
         IN  Ok([k \in 1..Len(kept) |-> meta.rows[kept[k]]])

\* get_projects_by_indices: the records, or the first lookup's exception.
get_projects_by_indices(meta, indices) ==
    IF \E k \in 1..Len(indices) : get_project_by_index(meta, indices[k]).exc # "none"
    THEN Raise("ValueError")
    ELSE Ok([k \in 1..Len(indices) |-> get_project_by_index(meta, indices[k]).val])

\* ------------------------------------------------------- budget predictor
Frac(n, d) == [num |-> n, den |-> d]

\* Mutant: the threshold is 0 instead of Config.TAU.
valid_mask_nonneg(similarities) == {k \in 1..Len(similarities) : similarities[k] >= 0}

\* Mutant: a score equal to Config.TAU is dropped.
valid_mask_strict(similarities) == {k \in 1..Len(similarities) : similarities[k] > TAU}

\* similarities >= Config.TAU
valid_mask(similarities) == {k \in 1..Len(similarities) : similarities[k] >= TAU}

\* Mutant: the selected entries come out in reverse order.
Masked_reversed(a, mask) ==
    LET Keep(k) == k \in mask
        idx == SelectSeq([k \in 1..Len(a) |-> k], Keep)
    IN  [k \in 1..Len(idx) |-> a[idx[Len(idx) + 1 - k]]]

\* a[mask]: the selected entries, in order.
Masked(a, mask) ==
    LET Keep(k) == k \in mask
        idx == SelectSeq([k \in 1..Len(a) |-> k], Keep)
    IN  [k \in 1..Len(idx) |-> a[idx[k]]]

\* Mutant: the similarities are divided by their number, not their sum.
calculate_weights_by_count(similarities) ==
    [k \in 1..Len(similarities) |-> Frac(similarities[k], Len(similarities))]

\* _calculate_weights: similarities / np.sum(similarities)
calculate_weights(similarities) ==
    [k \in 1..Len(similarities) |-> Frac(similarities[k], SumSeq(similarities))]

\* A frame has a column when its rows have the field.
HasColumn(df, col) == \A k \in 1..Len(df) : col \in DOMAIN df[k]

\* np.sum(topk_df[col] * topk_df['weight']); the weights share one denominator.
WeightedSum(df, col) ==
    Frac(SumSeq([k \in 1..Len(df) |-> df[k][col] * df[k].weight.num]),
         df[1].weight.den)

\* topk_df[col].mean()
Mean(df, col) == Frac(SumSeq([k \in 1..Len(df) |-> df[k][col]]), Len(df))

\* _predict_budget
predict_budget(topk_df) ==
    IF Len(topk_df) = 0 THEN Ok(Frac(0, 1))
    ELSE IF ~HasColumn(topk_df, "budget") THEN Raise("KeyError")
    ELSE Ok(WeightedSum(topk_df, "budget"))

\* One entry of similar_cases.
Case(row) ==
    [id |-> row.id, budget |-> row.initial_budget, eval |-> row.rating,
     similarity |-> row.similarity, weight |-> row.weight, year |-> row.year]

ZeroResult ==
    [predicted_budget |-> Frac(0, 1), average_budget |-> Frac(0, 1),
     case_count |-> 0, similar_cases |-> <<>>, message |-> "not found"]

\* _format_analysis_result
format_analysis_result(predicted_budget, topk_df) ==
    IF Len(topk_df) = 0 THEN Ok(ZeroResult)
    ELSE IF ~HasColumn(topk_df, "budget") THEN Raise("KeyError")
    ELSE Ok([predicted_budget |-> predicted_budget,
             average_budget |-> Mean(topk_df, "budget"),
             case_count |-> Len(topk_df),
             similar_cases |-> [k \in 1..Len(topk_df) |-> Case(topk_df[k])],
             message |-> "done"])

\* _create_error_response
create_error_response(e) ==
    [predicted_budget |-> Frac(0, 1), average_budget |-> Frac(0, 1),
     case_count |-> 0, similar_cases |-> <<>>, message |-> "error", error |-> TRUE]

\* Mutant: the except clause lets KeyError through.
analyze_catches_not_keyerror(e) == e # "KeyError"

\* The except clause of analyze_query: except Exception.
analyze_catches(e) == TRUE

\* ------------------------------------------------------------------ state
\* Request handler threads of the Flask application.
NumThreads == 2
Threads == 1..NumThreads

VARIABLES
    ties,          \* tie order of this build's np.argsort ("low" or "high")
    apiKey,        \* Config.OPENAI_API_KEY as read when config is imported
    diskVec,       \* data/embeddings.npy: None when absent
    diskMeta,      \* data/metadata.pkl: None when absent
    embeddings,    \* DataProcessor.embeddings
    metadata,      \* DataProcessor.metadata
    origin,        \* history: which matrix the metadata was assigned with
    bpEmbeddings,  \* BudgetPredictor.embeddings
    bpMetadata,    \* BudgetPredictor.metadata
    pc,            \* per thread: the statement it is at
    op,            \* per thread: the entry point it is serving or served last
    loc,           \* per thread: local variables
    result,        \* per thread: what analyze_query last returned
    outcome,       \* per thread: how its last entry point ended
    runs,          \* ingestion runs started so far
    restarts       \* process restarts so far

vars == << ties, apiKey, diskVec, diskMeta, embeddings, metadata, origin, bpEmbeddings,
           bpMetadata, pc, op, loc, result, outcome, runs, restarts >>

\* A matrix or a metadata table; run is the ingestion run that built it
\* (history information, the code does not store it).
Artifact(run, rows) == [isNone |-> FALSE, run |-> run, rows |-> rows]

\* A file of the data directory: what was written to it, and by which run.
File(run, content) == [isNone |-> FALSE, run |-> run, content |-> content]

\* No frame read yet.
NoTable == [status |-> "none", cols |-> FALSE, rows |-> <<>>]

EmptyLoc ==
    [run |-> 0, df |-> NoTable, idx |-> 0,
     metadata |-> <<>>, embeddings |-> <<>>, rebuilt |-> FALSE,
     loaded |-> None, query |-> <<>>, searched |-> None,
     similarities |-> <<>>, indices |-> <<>>,
     valid_similarities |-> <<>>, valid_indices |-> <<>>, topk_df |-> <<>>,
     texts |-> <<>>, attempt |-> 0, calls |-> 0, slept |-> <<>>]

NoResult == [none |-> TRUE]

\* History of the two assignments self.embeddings = ... and
\* self.metadata = ... (the code keeps no such record).  matrix[t]: what
\* the call of thread t last assigned to self.embeddings; partner: the
\* matrix assigned by the very call that assigned self.metadata.
Unassigned == [matrix |-> [t \in Threads |-> None], partner |-> None]

\* DataProcessor.__init__ and BudgetPredictor.__init__ in a fresh process,
\* with no artifact on disk yet.
Init ==
    /\ ties \in {"low", "high"}
    /\ apiKey \in Keys
    /\ diskVec = None
    /\ diskMeta = None
    /\ embeddings = None
    /\ metadata = None
    /\ origin = Unassigned
    /\ bpEmbeddings = None
    /\ bpMetadata = None
    /\ pc = [t \in Threads |-> "idle"]
    /\ op = [t \in Threads |-> "none"]
    /\ loc = [t \in Threads |-> EmptyLoc]
    /\ result = [t \in Threads |-> NoResult]
    /\ outcome = [t \in Threads |-> "none"]
    /\ runs = 0
    /\ restarts = 0

\* ------------------------------------------------------------ control flow
\* The entry point of thread t ends: it goes back to waiting for a request.
\* Its local variables are gone; the query embedding of the request stays
\* on record beside the result until the thread's next call.
Finish(t, how, res) ==
    /\ pc' = [pc EXCEPT ![t] = "idle"]
    /\ UNCHANGED op
    /\ loc' = [loc EXCEPT ![t] = [EmptyLoc EXCEPT !.query = loc[t].query]]
    /\ outcome' = [outcome EXCEPT ![t] = how]
    /\ result' = [result EXCEPT ![t] = res]

\* Mutant: the exception is swallowed and the entry point returns normally.
Throw_swallowed(t, e) == Finish(t, "returned", NoResult)

\* Exception e is raised in thread t and unwinds to its entry point:
\* analyze_query converts it to the error response, the /projects route
\* answers 500, initialize_services logs and re-raises.
Throw(t, e) ==
    IF op[t] = "analyze"
    THEN IF analyze_catches(e)
         THEN Finish(t, "returned", create_error_response(e))
         ELSE Finish(t, "raised", result[t])
    ELSE IF op[t] = "projects"
    THEN Finish(t, "http500", result[t])
    ELSE Finish(t, "raised", result[t])

Goto(t, label) == pc' = [pc EXCEPT ![t] = label]

disk == << diskVec, diskMeta >>
memory == << embeddings, metadata, origin >>
cache == << bpEmbeddings, bpMetadata >>
counters == << runs, restarts >>
ended == << result, outcome >>

\* ------------------------------------------------------------ entry points
\* A new call starts in thread t: nothing has been returned yet.
Begin(t, entry) ==
    /\ pc[t] = "idle"
    /\ op' = [op EXCEPT ![t] = entry]
    /\ result' = [result EXCEPT ![t] = NoResult]
    /\ outcome' = [outcome EXCEPT ![t] = "none"]

\* initialize_services, the first thing a process does: a new
\* DataProcessor, prepare_vector_database(use_sample_data=False), a new
\* BudgetPredictor.
Initialize(t) ==
    /\ runs < MaxRuns
    /\ \A u \in Threads : op[u] = "none"
    /\ Begin(t, "init")
    /\ Goto(t, "P_build")
    /\ loc' = [loc EXCEPT ![t] = EmptyLoc]
    /\ UNCHANGED << ties, apiKey, disk, memory, cache, counters >>

\* initialize_services with the variable unset: DataProcessor() raises in
\* the constructor of the provider client, which finds no key (clients that
\* accept None let Initialize go on).
InitializeWithoutKey(t) ==
    /\ apiKey = "unset"
    /\ \A u \in Threads : op[u] = "none"
    /\ pc[t] = "idle"
    /\ op' = [op EXCEPT ![t] = "init"]
    /\ outcome' = [outcome EXCEPT ![t] = "raised"]
    /\ UNCHANGED << ties, apiKey, disk, memory, cache, pc, loc, result, counters >>

\* GET /projects: data_processor.load_vector_database().
GetProjects(t) ==
    /\ Begin(t, "projects")
    /\ Goto(t, "L_check")
    /\ loc' = [loc EXCEPT ![t] = EmptyLoc]
    /\ UNCHANGED << ties, apiKey, disk, memory, cache, counters >>

\* analyze_query up to the similarity search: the one call of
\* client.embeddings.create returns the query embedding, or, with the
\* placeholder as key, _generate_sample_query_embedding makes it; then predict_budget_from_query_embeddings loads the vector
\* database unless the predictor already holds a pair.
Analyze(t) ==
    /\ Begin(t, "analyze")
    /\ \E q \in QueryVectors :
         loc' = [loc EXCEPT ![t] = [EmptyLoc EXCEPT
                                      !.query = q,
                                      !.calls = IF apiKey # "placeholder" THEN 1 ELSE 0]]
    /\ IF bpEmbeddings.isNone \/ bpMetadata.isNone
       THEN Goto(t, "L_check")
       ELSE Goto(t, "Q_search")
    /\ UNCHANGED << ties, apiKey, disk, memory, cache, counters >>

\* analyze_query: its one call of client.embeddings.create raises, and the
\* except clause ends the request.
AnalyzeProviderFails(t) ==
    /\ pc[t] = "idle"
    /\ apiKey # "placeholder"
    /\ op' = [op EXCEPT ![t] = "analyze"]
    /\ IF analyze_catches("ProviderError")
       THEN /\ outcome' = [outcome EXCEPT ![t] = "returned"]
            /\ result' = [result EXCEPT ![t] = create_error_response("ProviderError")]
       ELSE /\ outcome' = [outcome EXCEPT ![t] = "raised"]
            /\ result' = [result EXCEPT ![t] = NoResult]
    /\ loc' = [loc EXCEPT ![t] = [EmptyLoc EXCEPT !.calls = 1]]
    /\ UNCHANGED << ties, apiKey, disk, memory, cache, pc, counters >>

\* ------------------------------------------------ prepare_vector_database
\* load_csv_data over the source table as it is now.
PBuild(t) ==
    /\ pc[t] = "P_build"
    /\ \E built \in IngestionResults :
         loc' = [loc EXCEPT ![t].run = runs + 1,
                            ![t].metadata = built.metadata,
                            ![t].embeddings = built.embeddings]
    /\ runs' = runs + 1
    /\ Goto(t, "P_saveVec")
    /\ UNCHANGED << ties, apiKey, disk, memory, cache, op, ended, restarts >>

\* np.save(vector_file_path, embeddings)
PSaveVec(t) ==
    /\ pc[t] = "P_saveVec"
    /\ diskVec' = File(loc[t].run, np_save(loc[t].embeddings))
    /\ Goto(t, "P_saveMeta")
    /\ UNCHANGED << ties, apiKey, diskMeta, memory, cache, op, loc, ended, counters >>

\* np.save cannot write the file.
PSaveVecFails(t) ==
    /\ pc[t] = "P_saveVec"
    /\ Throw(t, "OSError")
    /\ UNCHANGED << ties, apiKey, disk, memory, cache, counters >>

\* pickle.dump(metadata, f)
PSaveMeta(t) ==
    /\ pc[t] = "P_saveMeta"
    /\ diskMeta' = File(loc[t].run, pickle_dump(loc[t].metadata))
    /\ Goto(t, "P_setEmb")
    /\ UNCHANGED << ties, apiKey, diskVec, memory, cache, op, loc, ended, counters >>

\* The metadata file cannot be written.
PSaveMetaFails(t) ==
    /\ pc[t] = "P_saveMeta"
    /\ Throw(t, "OSError")
    /\ UNCHANGED << ties, apiKey, disk, memory, cache, counters >>

\* self.embeddings = embeddings
PSetEmb(t) ==
    /\ pc[t] = "P_setEmb"
    /\ embeddings' = Artifact(loc[t].run, loc[t].embeddings)
    /\ origin' = [origin EXCEPT !.matrix[t] = embeddings']
    /\ Goto(t, "P_setMeta")
    /\ UNCHANGED << ties, apiKey, disk, metadata, cache, op, loc, ended, counters >>

\* self.metadata = metadata, and the return to the caller.
PSetMeta(t) ==
    /\ pc[t] = "P_setMeta"
    /\ metadata' = Artifact(loc[t].run, loc[t].metadata)
    /\ origin' = [origin EXCEPT !.partner = origin.matrix[t]]
    /\ IF op[t] = "init"
       THEN Finish(t, "returned", result[t])
       ELSE /\ Goto(t, "L_loadVec")
            /\ UNCHANGED << op, loc, ended >>
    /\ UNCHANGED << ties, apiKey, disk, embeddings, cache, counters >>

\* --------------------------------------------------- load_vector_database
\* The os.path.exists test: rebuild when either artifact is missing.
LCheck(t) ==
    /\ pc[t] = "L_check"
    /\ IF diskVec.isNone \/ diskMeta.isNone
       THEN /\ runs < MaxRuns
            /\ loc' = [loc EXCEPT ![t].rebuilt = TRUE]
            /\ Goto(t, "P_build")
       ELSE /\ Goto(t, "L_loadVec")
            /\ UNCHANGED loc
    /\ UNCHANGED << ties, apiKey, disk, memory, cache, op, ended, counters >>

\* self.embeddings = np.load(vector_file_path)
LLoadVec(t) ==
    /\ pc[t] = "L_loadVec"
    /\ ~diskVec.isNone
    /\ embeddings' = Artifact(diskVec.run, np_load(diskVec.content))
    /\ origin' = [origin EXCEPT !.matrix[t] = embeddings']
    /\ Goto(t, "L_loadMeta")
    /\ UNCHANGED << ties, apiKey, disk, metadata, cache, op, loc, ended, counters >>

\* np.load cannot read the file.
LLoadVecFails(t) ==
    /\ pc[t] = "L_loadVec"
    /\ Throw(t, "OSError")
    /\ UNCHANGED << ties, apiKey, disk, memory, cache, counters >>

\* self.metadata = pickle.load(f); return self.embeddings, self.metadata.
\* The predictor keeps the returned pair.
LLoadMeta(t) ==
    /\ pc[t] = "L_loadMeta"
    /\ ~diskMeta.isNone
    /\ metadata' = Artifact(diskMeta.run, pickle_load(diskMeta.content))
    /\ origin' = [origin EXCEPT !.partner = origin.matrix[t]]
    /\ loc' = [loc EXCEPT ![t].loaded =
                 [isNone |-> FALSE, embeddings |-> embeddings, metadata |-> metadata']]
    /\ IF op[t] = "analyze"
       THEN /\ bpEmbeddings' = embeddings
            /\ bpMetadata' = metadata'
            /\ Goto(t, "Q_search")
       ELSE /\ Goto(t, "G_iter")
            /\ UNCHANGED cache
    /\ UNCHANGED << ties, apiKey, disk, embeddings, op, ended, counters >>

\* The metadata file cannot be opened or unpickled.
LLoadMetaFails(t) ==
    /\ pc[t] = "L_loadMeta"
    /\ Throw(t, "OSError")
    /\ UNCHANGED << ties, apiKey, disk, memory, cache, counters >>

\* -------------------------------- predict_budget_from_query_embeddings
\* Mutant: the order of equal scores differs from one call to the next.
QSearch_unstable(t) ==
    /\ pc[t] = "Q_search"
    /\ LET found == find_similar_projects(loc[t].query, embeddings.rows, TOPK,
                                          IF t = 1 THEN "low" ELSE "high")
           mask == valid_mask(found.similarities)
       IN  IF Cardinality(mask) = 0
           THEN Finish(t, "returned", ZeroResult)
           ELSE /\ loc' = [loc EXCEPT ![t].similarities = found.similarities,
                                      ![t].indices = found.indices,
                                      ![t].valid_similarities = Masked(found.similarities, mask),
                                      ![t].valid_indices = Masked(found.indices, mask),
                                      ![t].searched = embeddings]
                /\ Goto(t, "Q_lookup")
                /\ UNCHANGED << op, ended >>
    /\ UNCHANGED << ties, apiKey, disk, memory, cache, counters >>

\* find_similar_projects on DataProcessor.embeddings, then the threshold
\* filter; with no survivor the zero-result response is returned.
QSearch(t) ==
    /\ pc[t] = "Q_search"
    /\ LET found == find_similar_projects(loc[t].query, embeddings.rows, TOPK, ties)
           mask == valid_mask(found.similarities)
           valid_similarities == Masked(found.similarities, mask)
           valid_indices == Masked(found.indices, mask)
       IN  IF Len(valid_similarities) = 0
           THEN Finish(t, "returned", format_analysis_result(Frac(0, 1), <<>>).val)
           ELSE /\ loc' = [loc EXCEPT ![t].similarities = found.similarities,
                                      ![t].indices = found.indices,
                                      ![t].valid_similarities = valid_similarities,
                                      ![t].valid_indices = valid_indices,
                                      ![t].searched = embeddings]
                /\ Goto(t, "Q_lookup")
                /\ UNCHANGED << op, ended >>
    /\ UNCHANGED << ties, apiKey, disk, memory, cache, counters >>

\* get_projects_by_indices on DataProcessor.metadata, then the similarity
\* and weight columns of topk_df.
QLookup(t) ==
    /\ pc[t] = "Q_lookup"
    /\ LET similar_projects == get_projects_by_indices(metadata, loc[t].valid_indices)
           weights == calculate_weights(loc[t].valid_similarities)
       IN  IF similar_projects.exc # "none"
           THEN Throw(t, similar_projects.exc)
           ELSE /\ loc' = [loc EXCEPT ![t].topk_df =
                             [k \in 1..Len(similar_projects.val) |->
                                [c \in DOMAIN similar_projects.val[k]
                                       \cup {"similarity", "weight"} |->
                                   IF c = "similarity" THEN loc[t].valid_similarities[k]
                                   ELSE IF c = "weight" THEN weights[k]
                                   ELSE similar_projects.val[k][c]]]]
                /\ Goto(t, "Q_predict")
                /\ UNCHANGED << op, ended >>
    /\ UNCHANGED << ties, apiKey, disk, memory, cache, counters >>

\* _predict_budget and _format_analysis_result, and the return of
\* analyze_query.
QPredict(t) ==
    /\ pc[t] = "Q_predict"
    /\ LET predicted_budget == predict_budget(loc[t].topk_df)
       IN  IF predicted_budget.exc # "none"
           THEN Throw(t, predicted_budget.exc)
           ELSE LET analysis_result ==
                        format_analysis_result(predicted_budget.val, loc[t].topk_df)
                IN  IF analysis_result.exc # "none"
                    THEN Throw(t, analysis_result.exc)
                    ELSE Finish(t, "returned", analysis_result.val)
    /\ UNCHANGED << ties, apiKey, disk, memory, cache, counters >>

\* ------------------------------------------------------------ GET /projects
\* The loop over the loaded metadata reads row['budget'].
GIter(t) ==
    /\ pc[t] = "G_iter"
    /\ LET rows == loc[t].loaded.metadata.rows
       IN  IF Len(rows) > 0 /\ ~HasColumn(rows, "budget")
           THEN Throw(t, "KeyError")
           ELSE Finish(t, "http200", result[t])
    /\ UNCHANGED << ties, apiKey, disk, memory, cache, counters >>

\* ------------------------------------------------------------ environment
\* The process is restarted: new DataProcessor and BudgetPredictor objects,
\* the files on disk stay.
Restart ==
    /\ restarts < MaxRestarts
    /\ restarts' = restarts + 1
    /\ embeddings' = None
    /\ metadata' = None
    /\ origin' = Unassigned
    /\ bpEmbeddings' = None
    /\ bpMetadata' = None
    /\ pc' = [t \in Threads |-> "idle"]
    /\ op' = [t \in Threads |-> "none"]
    /\ loc' = [t \in Threads |-> EmptyLoc]
    /\ result' = [t \in Threads |-> NoResult]
    /\ outcome' = [t \in Threads |-> "none"]
    /\ UNCHANGED << ties, apiKey, disk, runs >>

Step(t) ==
    \/ Initialize(t)
    \/ InitializeWithoutKey(t)
    \/ GetProjects(t)
    \/ Analyze(t)
    \/ AnalyzeProviderFails(t)
    \/ PBuild(t)
    \/ PSaveVec(t)
    \/ PSaveVecFails(t)
    \/ PSaveMeta(t)
    \/ PSaveMetaFails(t)
    \/ PSetEmb(t)
    \/ PSetMeta(t)
    \/ LCheck(t)
    \/ LLoadVec(t)
    \/ LLoadVecFails(t)
    \/ LLoadMeta(t)
    \/ LLoadMetaFails(t)
    \/ QSearch(t)
    \/ QLookup(t)
    \/ QPredict(t)
    \/ GIter(t)

\* One request is served at a time.
Next == Step(1) \/ Restart

Spec == Init /\ [][Next]_vars

\* ------------------------------------------------- requests at a cold start
\* A process whose data directory holds no artifact serves its first
\* requests on several threads, one request per thread: thread 1 a query,
\* the others GET /projects.  No I/O fails and nobody edits the CSV
\* meanwhile, so every load_vector_database that finds a file missing
\* rebuilds from the same source table.
SameSource(t) ==
    \A u \in Threads \ {t} : loc[u].run > 0 => loc'[t].metadata = loc[u].metadata

NextColdStart ==
    \E t \in Threads :
        \/ t = 1 /\ op[t] = "none" /\ Analyze(t)
        \/ t # 1 /\ op[t] = "none" /\ GetProjects(t)
        \/ LCheck(t)
        \/ PBuild(t) /\ SameSource(t)
        \/ PSaveVec(t)
        \/ PSaveMeta(t)
        \/ PSetEmb(t)
        \/ PSetMeta(t)
        \/ LLoadVec(t)
        \/ LLoadMeta(t)
        \/ QSearch(t)
        \/ QLookup(t)
        \/ QPredict(t)
        \/ GIter(t)

\* The cold start of a process that has a key of the provider.
InitColdStart == Init /\ apiKey = "real"

SpecColdStart == InitColdStart /\ [][NextColdStart]_vars

\* ------------------------------------------------------- queries side by side
\* The process while it serves queries: initialize_services has completed
\* one ingestion run and the first analyze_query (thread 1) has just loaded
\* the pair into the predictor.
InitServing ==
    \E built \in IngestionResults, q \in QueryVectors :
        /\ ties \in {"low", "high"}
        /\ apiKey = "real"
        /\ diskVec = File(1, np_save(built.embeddings))
        /\ diskMeta = File(1, pickle_dump(built.metadata))
        /\ embeddings = Artifact(1, built.embeddings)
        /\ metadata = Artifact(1, built.metadata)
        /\ origin = [matrix |-> [t \in Threads |->
                                    IF t = 1 THEN Artifact(1, built.embeddings)
                                    ELSE None],
                     partner |-> Artifact(1, built.embeddings)]
        /\ bpEmbeddings = Artifact(1, built.embeddings)
        /\ bpMetadata = Artifact(1, built.metadata)
        /\ pc = [t \in Threads |-> IF t = 1 THEN "Q_search" ELSE "idle"]
        /\ op = [t \in Threads |-> IF t = 1 THEN "analyze" ELSE "none"]
        /\ loc = [t \in Threads |->
                    IF t = 1
                    THEN [EmptyLoc EXCEPT
                            !.query = q,
                            !.loaded = [isNone |-> FALSE,
                                        embeddings |-> Artifact(1, built.embeddings),
                                        metadata |-> Artifact(1, built.metadata)]]
                    ELSE EmptyLoc]
        /\ result = [t \in Threads |-> NoResult]
        /\ outcome = [t \in Threads |-> "none"]
        /\ runs = 1
        /\ restarts = 0

\* Requests to /analyze, served by the threads of the server in any
\* interleaving; nothing writes the store.
NextServing ==
    \E t \in Threads : Analyze(t) \/ QSearch(t) \/ QLookup(t) \/ QPredict(t)

SpecServing == InitServing /\ [][NextServing]_vars

\* ------------------------------------------------ ingestion, step by step
\* The source tables an ingestion run may find.
IngestTables == SourceTables \cup {TblCells}

\* initialize_services has called prepare_vector_database, which enters
\* load_csv_data; df stands for the CSV file as it is on disk.
InitIngest ==
    \E table \in IngestTables :
        /\ ties \in {"low", "high"}
        /\ apiKey = "real"
        /\ diskVec = None
        /\ diskMeta = None
        /\ embeddings = None
        /\ metadata = None
        /\ origin = Unassigned
        /\ bpEmbeddings = None
        /\ bpMetadata = None
        /\ pc = [t \in Threads |-> IF t = 1 THEN "C_read" ELSE "idle"]
        /\ op = [t \in Threads |-> IF t = 1 THEN "init" ELSE "none"]
        /\ loc = [t \in Threads |->
                    IF t = 1 THEN [EmptyLoc EXCEPT !.df = table] ELSE EmptyLoc]
        /\ result = [t \in Threads |-> NoResult]
        /\ outcome = [t \in Threads |-> "none"]
        /\ runs = 0
        /\ restarts = 0

\* load_csv_data up to the call of process_csv_embeddings: the existence
\* test, pd.read_csv, the selection of the metadata columns and
\* preprocess_csv_data.  An exception goes to the except clause.
CRead(t) ==
    /\ pc[t] = "C_read"
    /\ IF loc[t].df.status # "ok" \/ ~loc[t].df.cols
       THEN /\ Goto(t, "C_fallback")
            /\ UNCHANGED loc
       ELSE /\ loc' = [loc EXCEPT ![t].metadata = preprocess_csv_data(loc[t].df.rows),
                                  ![t].embeddings = <<>>,
                                  ![t].idx = 1]
            /\ Goto(t, "E_row")
    /\ UNCHANGED << ties, apiKey, disk, memory, cache, op, ended, counters >>

\* process_csv_embeddings: one iteration of the loop over df.iterrows().
ERow(t) ==
    /\ pc[t] = "E_row"
    /\ loc[t].idx <= Len(loc[t].df.rows)
    /\ \E draw \in RandomDraws :
         loc' = [loc EXCEPT
                   ![t].embeddings =
                       Append(loc[t].embeddings,
                              RowEmbedding(loc[t].df.rows[loc[t].idx].embedding_sum,
                                           generate_random_embedding(draw))),
                   ![t].idx = loc[t].idx + 1]
    /\ UNCHANGED << ties, apiKey, disk, memory, cache, pc, op, ended, counters >>

\* process_csv_embeddings after the loop: np.array, the row norms and the
\* division, then the return of load_csv_data to prepare_vector_database.
\* With no row the norm over axis 1 raises, the handler calls the undefined
\* generate_sample_embeddings, and load_csv_data's except clause takes over.
ENormalize(t) ==
    /\ pc[t] = "E_row"
    /\ loc[t].idx > Len(loc[t].df.rows)
    /\ IF Len(loc[t].embeddings) = 0
       THEN /\ Goto(t, "C_fallback")
            /\ UNCHANGED << loc, runs >>
       ELSE /\ loc' = [loc EXCEPT
                         ![t].embeddings =
                             [i \in 1..Len(loc[t].embeddings) |->
                                NormalizeRow(loc[t].embeddings[i])],
                         ![t].run = runs + 1]
            /\ runs' = runs + 1
            /\ Goto(t, "P_saveVec")
    /\ UNCHANGED << ties, apiKey, disk, memory, cache, op, ended, restarts >>

\* The except clause of load_csv_data: return self.create_sample_dataset().
CFallback(t) ==
    /\ pc[t] = "C_fallback"
    /\ \E draw \in RandomDraws :
         LET sample == create_sample_dataset(generate_random_embedding(draw))
         IN  loc' = [loc EXCEPT ![t].metadata = sample.metadata,
                                ![t].embeddings = sample.embeddings,
                                ![t].run = runs + 1]
    /\ runs' = runs + 1
    /\ Goto(t, "P_saveVec")
    /\ UNCHANGED << ties, apiKey, disk, memory, cache, op, ended, restarts >>

NextIngest ==
    \E t \in Threads : CRead(t) \/ ERow(t) \/ ENormalize(t) \/ CFallback(t)

SpecIngest == InitIngest /\ [][NextIngest]_vars

\* ------------------------------------------------- _get_embeddings_batch
\* The texts of a batch, by number.
Texts == 1..2

\* The batches create_embeddings_from_texts hands over: texts[i:i + BATCH_SIZE]
\* is never empty.
Batches == UNION { [1..n -> Texts] : n \in 1..MaxBatch }

\* What the provider answers for a batch: one vector per text.
Responses(texts) == [1..Len(texts) -> QueryVectors]

\* A backoff that grows linearly.
backoff_linear(attempt) == 2 * attempt

\* time.sleep(2 ** attempt), in seconds

backoff(attempt) == 2 ^ attempt

\* Thread 1 enters _get_embeddings_batch with a batch.
InitRetry ==
    \E texts \in Batches :
        /\ ties \in {"low", "high"}
        /\ apiKey = "real"
        /\ diskVec = None
        /\ diskMeta = None
        /\ embeddings = None
        /\ metadata = None
        /\ origin = Unassigned
        /\ bpEmbeddings = None
        /\ bpMetadata = None
        /\ pc = [t \in Threads |-> IF t = 1 THEN "B_call" ELSE "idle"]
        /\ op = [t \in Threads |-> IF t = 1 THEN "embed" ELSE "none"]
        /\ loc = [t \in Threads |->
                    IF t = 1 THEN [EmptyLoc EXCEPT !.texts = texts] ELSE EmptyLoc]
        /\ result = [t \in Threads |-> NoResult]
        /\ outcome = [t \in Threads |-> "none"]
        /\ runs = 0
        /\ restarts = 0

\* self.client.embeddings.create(...) answers: the function returns the
\* embeddings of the response.
BCall(t) ==
    /\ pc[t] = "B_call"
    /\ loc[t].attempt < MAX_RETRIES
    /\ \E response \in Responses(loc[t].texts) :
         result' = [result EXCEPT ![t] = [embeddings |-> response]]
    /\ loc' = [loc EXCEPT ![t].calls = @ + 1]
    /\ outcome' = [outcome EXCEPT ![t] = "returned"]
    /\ Goto(t, "idle")
    /\ UNCHANGED << ties, apiKey, disk, memory, cache, op, counters >>

\* self.client.embeddings.create(...) raises.
BCallFails(t) ==
    /\ pc[t] = "B_call"
    /\ loc[t].attempt < MAX_RETRIES
    /\ loc' = [loc EXCEPT ![t].calls = @ + 1]
    /\ Goto(t, "B_except")
    /\ UNCHANGED << ties, apiKey, disk, memory, cache, op, ended, counters >>

\* The except clause: sleep and go on with the next attempt, or raise
\* when this was the last one.
BExcept(t) ==
    /\ pc[t] = "B_except"
    /\ IF loc[t].attempt < MAX_RETRIES - 1
       THEN /\ loc' = [loc EXCEPT ![t].slept = Append(@, backoff(loc[t].attempt)),
                                  ![t].attempt = @ + 1]
            /\ Goto(t, "B_call")
            /\ UNCHANGED ended
       ELSE /\ outcome' = [outcome EXCEPT ![t] = "raised"]
            /\ Goto(t, "idle")
            /\ UNCHANGED << loc, result >>
    /\ UNCHANGED << ties, apiKey, disk, memory, cache, op, counters >>

NextRetry == BCall(1) \/ BCallFails(1) \/ BExcept(1)

SpecRetry == InitRetry /\ [][NextRetry]_vars

\* ------------------------------------------- preprocess_csv_data, step by step
\* Raw cells of the numeric columns: negative, zero, positive, and a cell
\* that is missing or not a number.
RawBudgets == { Num(0 - 100), Num(0), Num(100), NotNum }

\* Raw text cells: missing, of length exactly MinTextLen, and one longer.
RawTexts == { NaNText, Text(MinTextLen), Text(MinTextLen + 1) }

\* Raw error rates in units of 1/100: missing, zero, negative, and values
\* around each threshold of get_rating.
RawErrorRates ==
    { NotNum, Num(0), Num(0 - 5), Num(5), Num(10), Num(29), Num(30), Num(49),
      Num(50), Num(90) }

\* Source tables of one row over all the raw cells, and the tables of the
\* ingestion that have several rows.
PreprocessTables ==
    { [status |-> "ok", cols |-> TRUE, rows |-> << SrcRow(1, b, s, i, e, CellA) >>] :
        b \in RawBudgets, s \in RawTexts, i \in RawTexts, e \in RawErrorRates }
    \cup { TblExample, TblDrop, TblBig }

\* The columns load_csv_data selects for the metadata frame (those the
\* model keeps).
MetaColumns == { "id", "initial_budget", "summary_text", "issue_text", "error_rate" }

\* Thread 1 enters preprocess_csv_data with the selected columns of a table.
InitPreprocess ==
    \E table \in PreprocessTables :
        /\ ties \in {"low", "high"}
        /\ apiKey = "real"
        /\ diskVec = None
        /\ diskMeta = None
        /\ embeddings = None
        /\ metadata = None
        /\ origin = Unassigned
        /\ bpEmbeddings = None
        /\ bpMetadata = None
        /\ pc = [t \in Threads |-> IF t = 1 THEN "M_coerce" ELSE "idle"]
        /\ op = [t \in Threads |-> IF t = 1 THEN "preprocess" ELSE "none"]
        /\ loc = [t \in Threads |->
                    IF t = 1
                    THEN [EmptyLoc EXCEPT
                            !.df = table,
                            !.metadata = [k \in 1..Len(table.rows) |->
                                            [c \in MetaColumns |-> table.rows[k][c]]]]
                    ELSE EmptyLoc]
        /\ result = [t \in Threads |-> NoResult]
        /\ outcome = [t \in Threads |-> "none"]
        /\ runs = 0
        /\ restarts = 0

\* pd.to_numeric(..., errors='coerce').fillna(0) on the numeric columns
PreCoerce(t) ==
    /\ pc[t] = "M_coerce"
    /\ loc' = [loc EXCEPT ![t].metadata =
                 [k \in 1..Len(loc[t].metadata) |->
                    [loc[t].metadata[k] EXCEPT !.initial_budget = to_numeric(@),
                                               !.error_rate = to_numeric(@)]]]
    /\ Goto(t, "M_budget")
    /\ UNCHANGED << ties, apiKey, disk, memory, cache, op, ended, counters >>

\* The mask metadata['initial_budget'] > 0, for one row.
RowHasBudget(r) == r.initial_budget > 0

\* metadata = metadata[metadata['initial_budget'] > 0]
PreBudgetFilter(t) ==
    /\ pc[t] = "M_budget"
    /\ loc' = [loc EXCEPT ![t].metadata =
                 SelectSeq(loc[t].metadata, RowHasBudget)]
    /\ Goto(t, "M_clean")
    /\ UNCHANGED << ties, apiKey, disk, memory, cache, op, ended, counters >>

\* .fillna('').astype(str) on the text columns
PreCleanText(t) ==
    /\ pc[t] = "M_clean"
    /\ loc' = [loc EXCEPT ![t].metadata =
                 [k \in 1..Len(loc[t].metadata) |->
                    [loc[t].metadata[k] EXCEPT !.summary_text = fill_text(@),
                                               !.issue_text = fill_text(@)]]]
    /\ Goto(t, "M_text")
    /\ UNCHANGED << ties, apiKey, disk, memory, cache, op, ended, counters >>

\* Mutant: a text of length MinTextLen counts.
RowHasText_inclusive(r) == r.summary_text >= MinTextLen \/ r.issue_text >= MinTextLen

\* The mask (summary_text.str.len() > 10) | (issue_text.str.len() > 10), for
\* one row.
RowHasText(r) == r.summary_text > MinTextLen \/ r.issue_text > MinTextLen

\* metadata = metadata[(summary_text.str.len() > 10) | (issue_text.str.len() > 10)]
PreTextFilter(t) ==
    /\ pc[t] = "M_text"
    /\ loc' = [loc EXCEPT ![t].metadata =
                 SelectSeq(loc[t].metadata, RowHasText)]
    /\ Goto(t, "M_rating")
    /\ UNCHANGED << ties, apiKey, disk, memory, cache, op, ended, counters >>

\* metadata['rating'] = self.generate_rating_from_error(metadata['error_rate'])
PreRating(t) ==
    /\ pc[t] = "M_rating"
    /\ loc' = [loc EXCEPT ![t].metadata =
                 [k \in 1..Len(loc[t].metadata) |->
                    [c \in DOMAIN loc[t].metadata[k] \cup {"rating"} |->
                       IF c = "rating" THEN get_rating(loc[t].metadata[k].error_rate)
                       ELSE loc[t].metadata[k][c]]]]
    /\ Goto(t, "M_year")
    /\ UNCHANGED << ties, apiKey, disk, memory, cache, op, ended, counters >>

\* metadata['year'] = 2024, the outcomes and description columns (not kept
\* in the model) and the return of the frame.
PreReturn(t) ==
    /\ pc[t] = "M_year"
    /\ loc' = [loc EXCEPT ![t].metadata =
                 [k \in 1..Len(loc[t].metadata) |->
                    [c \in DOMAIN loc[t].metadata[k] \cup {"year"} |->
                       IF c = "year" THEN 2024 ELSE loc[t].metadata[k][c]]]]
    /\ outcome' = [outcome EXCEPT ![t] = "returned"]
    /\ Goto(t, "idle")
    /\ UNCHANGED << ties, apiKey, disk, memory, cache, op, result, counters >>

\* metadata['outcomes'] = metadata.apply(get_outcomes, axis=1) with no row
\* left: apply gives back an empty frame, and whether assigning it to one
\* column raises depends on the pandas version.
PreReturnFails(t) ==
    /\ pc[t] = "M_year"
    /\ Len(loc[t].metadata) = 0
    /\ outcome' = [outcome EXCEPT ![t] = "raised"]
    /\ Goto(t, "idle")
    /\ UNCHANGED << ties, apiKey, disk, memory, cache, op, loc, result, counters >>

NextPreprocess ==
    \/ PreCoerce(1)
    \/ PreBudgetFilter(1)
    \/ PreCleanText(1)
    \/ PreTextFilter(1)
    \/ PreRating(1)
    \/ PreReturn(1)
    \/ PreReturnFails(1)

SpecPreprocess == InitPreprocess /\ [][NextPreprocess]_vars

\* ------------------------------------------------------------ properties
FracEq(a, b) == a.num * b.den = b.num * a.den

IsErrorResponse(r) ==
    /\ "error" \in DOMAIN r
    /\ r.error = TRUE
    /\ "message" \in DOMAIN r
    /\ FracEq(r.predicted_budget, Frac(0, 1))
    /\ FracEq(r.average_budget, Frac(0, 1))
    /\ r.case_count = 0
    /\ r.similar_cases = <<>>

\* Thread t takes a step that ends its call without a restart.
Returns(t) == pc[t] # "idle" /\ pc'[t] = "idle" /\ restarts' = restarts

\* C1: after every ingestion run the metadata has as many rows as the
\* embedding matrix (checked on the pair load_csv_data hands to
\* prepare_vector_database, before it is saved).
C1_AlignedAfterIngestion ==
    \A t \in Threads :
        pc[t] = "P_saveVec" => Len(loc[t].metadata) = Len(loc[t].embeddings)

\* C2: a query with a non-empty surviving candidate set returns a non-error
\* result whose predicted_budget is the sum of initial_budget x weight over
\* the surviving candidates.
C2_PredictedBudget ==
    [][\A t \in Threads :
         (pc[t] = "Q_predict" /\ Returns(t)) =>
            /\ outcome'[t] = "returned"
            /\ "error" \notin DOMAIN result'[t]
            /\ FracEq(result'[t].predicted_budget,
                      WeightedSum(loc[t].topk_df, "initial_budget"))]_vars

\* C3: a query with a non-empty surviving candidate set returns the
\* unweighted mean of the survivors' initial_budget as average_budget and
\* their number as case_count.
C3_AverageBudget ==
    [][\A t \in Threads :
         (pc[t] = "Q_predict" /\ Returns(t)) =>
            /\ FracEq(result'[t].average_budget,
                      Mean(loc[t].topk_df, "initial_budget"))
            /\ result'[t].case_count = Len(loc[t].valid_indices)]_vars

\* A step of thread t on which analyze_query fails: the provider call, a
\* write or read of an artifact, a lookup beyond the metadata, a missing
\* column while predicting or formatting.
AnalyzeFails(t) ==
    \/ /\ pc[t] = "idle" /\ pc'[t] = "idle" /\ op'[t] = "analyze"
       /\ op'[t] # op[t] \/ outcome'[t] # outcome[t] \/ result'[t] # result[t]
    \/ /\ op[t] = "analyze"
       /\ Returns(t)
       /\ \/ pc[t] \in {"P_saveVec", "P_saveMeta", "L_loadVec", "L_loadMeta"}
          \/ /\ pc[t] = "Q_lookup"
             /\ \/ metadata.isNone
                \/ \E k \in 1..Len(loc[t].valid_indices) :
                      loc[t].valid_indices[k] > Len(metadata.rows)
          \/ pc[t] = "Q_predict" /\ ~HasColumn(loc[t].topk_df, "budget")

\* C4: every failure inside analyze_query is caught there: the call returns
\* (it never raises) and what it returns is the error response with
\* predicted_budget 0, average_budget 0, case_count 0, no similar case, a
\* message and error = true.
C4_ErrorsCaught ==
    [][\A t \in Threads :
         AnalyzeFails(t) =>
            /\ outcome'[t] = "returned"
            /\ IsErrorResponse(result'[t])]_vars

C4_Witness ==
    \E t \in Threads :
        /\ pc[t] = "idle" /\ op[t] = "analyze" /\ outcome[t] = "returned"
        /\ IsErrorResponse(result[t])
        /\ ~diskVec.isNone /\ ~embeddings.isNone

\* C5: when every stored row scores below TAU against the query (as with
\* the zero query vector), the call returns the zero-result response: all
\* figures 0, no similar case, a message and no error flag.
C5_ZeroResult ==
    [][\A t \in Threads :
         ( /\ pc[t] = "Q_search" /\ pc'[t] # "Q_search" /\ restarts' = restarts
           /\ \A i \in 1..Len(embeddings.rows) :
                 calculate_similarity(loc[t].query, embeddings.rows)[i] < TAU )
         => /\ pc'[t] = "idle"
            /\ outcome'[t] = "returned"
            /\ "error" \notin DOMAIN result'[t]
            /\ "message" \in DOMAIN result'[t]
            /\ FracEq(result'[t].predicted_budget, Frac(0, 1))
            /\ FracEq(result'[t].average_budget, Frac(0, 1))
            /\ result'[t].case_count = 0
            /\ result'[t].similar_cases = <<>>]_vars

C5_Witness ==
    \E t \in Threads :
        /\ pc[t] = "idle" /\ op[t] = "analyze" /\ outcome[t] = "returned"
        /\ "error" \notin DOMAIN result[t]
        /\ "case_count" \in DOMAIN result[t]
        /\ result[t].case_count = 0
        /\ ~embeddings.isNone /\ Len(embeddings.rows) > 1

\* The candidates of thread t once the threshold filter has run.
Filtered(t) == pc[t] \in {"Q_lookup", "Q_predict"}

\* C6: the candidates that survive are exactly the top-K candidates with
\* score >= TAU, so none below TAU reaches the weighting or a result and one
\* with score = TAU is kept.
C6_ThresholdExclusion ==
    \A t \in Threads :
        /\ Filtered(t) =>
             /\ \A k \in 1..Len(loc[t].valid_similarities) :
                   loc[t].valid_similarities[k] >= TAU
             /\ { <<loc[t].valid_indices[k], loc[t].valid_similarities[k]>> :
                     k \in 1..Len(loc[t].valid_indices) }
                = { <<loc[t].indices[k], loc[t].similarities[k]>> :
                     k \in {j \in 1..Len(loc[t].indices) :
                               loc[t].similarities[j] >= TAU} }
             /\ \A k \in 1..Len(loc[t].topk_df) : loc[t].topk_df[k].similarity >= TAU
        /\ "similar_cases" \in DOMAIN result[t] =>
             \A k \in 1..Len(result[t].similar_cases) :
                result[t].similar_cases[k].similarity >= TAU

C6_Witness ==
    \E t \in Threads :
        /\ pc[t] = "Q_predict"
        /\ \E k \in 1..Len(loc[t].topk_df) : loc[t].topk_df[k].similarity = TAU
        /\ Len(loc[t].valid_indices) < Len(loc[t].indices)

\* C7: find_similar_projects returns at most min(K, stored rows) candidates,
\* and no result lists more similar cases than that.
C7_TopKBound ==
    \A t \in Threads :
        /\ Filtered(t) =>
             /\ Len(loc[t].indices) <= Min(TOPK, Len(embeddings.rows))
             /\ Len(loc[t].similarities) = Len(loc[t].indices)
             /\ Len(loc[t].topk_df) <= Min(TOPK, Len(embeddings.rows))
        /\ "similar_cases" \in DOMAIN result[t] =>
             Len(result[t].similar_cases) <= TOPK

C7_Witness ==
    \E t \in Threads :
        /\ Filtered(t)
        /\ Len(loc[t].indices) = TOPK
        /\ Len(embeddings.rows) > TOPK

\* C8: each surviving candidate's weight is its similarity over the sum of
\* the surviving similarities, that sum is not 0, and the weights sum to 1.
C8_Weights ==
    \A t \in Threads :
        pc[t] = "Q_predict" =>
            LET df == loc[t].topk_df
                total == SumSeq(loc[t].valid_similarities)
            IN  /\ total > 0
                /\ \A k \in 1..Len(df) :
                      /\ df[k].weight.den # 0
                      /\ FracEq(df[k].weight, Frac(loc[t].valid_similarities[k], total))
                      /\ df[k].weight.den = df[1].weight.den
                /\ SumSeq([k \in 1..Len(df) |-> df[k].weight.num]) = df[1].weight.den

C8_Witness ==
    \E t \in Threads :
        /\ pc[t] = "Q_predict"
        /\ Len(loc[t].topk_df) >= 2
        /\ loc[t].topk_df[1].similarity # loc[t].topk_df[2].similarity

\* C9: load_vector_database returns a matrix and a metadata table written by
\* the same ingestion run, with equal row counts.
C9_LoadReturnsAlignedPair ==
    \A t \in Threads :
        ~loc[t].loaded.isNone =>
            /\ loc[t].loaded.embeddings.run = loc[t].loaded.metadata.run
            /\ Len(loc[t].loaded.embeddings.rows) = Len(loc[t].loaded.metadata.rows)

\* C10: in no state does the matrix on disk belong to a newer ingestion run
\* than the metadata on disk, or exist without it.
C10_AtomicReplace ==
    ~diskVec.isNone => (~diskMeta.isNone /\ diskMeta.run >= diskVec.run)

\* Thread t ends the save of prepare_vector_database: pickle.dump returns.
SaveCompletes(t) == pc[t] = "P_saveMeta" /\ pc'[t] = "P_setEmb"

\* Thread t returns from load_vector_database.
LoadReturns(t) == pc[t] = "L_loadMeta" /\ pc'[t] \in {"Q_search", "G_iter"}

\* C11: what a completed save leaves on disk reads back as the pair that was
\* saved, row for row; a load with no write since that save returns this
\* pair (compared with the pair the rebuild of the same call built), and a
\* repeated load leaves the in-memory pair as it was and writes nothing.
C11_IdempotentReload ==
    [][\A t \in Threads :
         /\ SaveCompletes(t) =>
               /\ pickle_load(diskMeta'.content) = loc[t].metadata
               /\ diskVec'.run = loc[t].run =>
                     np_load(diskVec'.content) = loc[t].embeddings
         /\ (pc[t] = "L_loadVec" /\ pc'[t] = "L_loadMeta") =>
               /\ UNCHANGED disk
               /\ embeddings'.run = diskVec.run
               /\ (~embeddings.isNone /\ embeddings.run = diskVec.run) =>
                     embeddings' = embeddings
         /\ (LoadReturns(t) /\ diskVec.run = diskMeta.run) =>
               /\ UNCHANGED disk
               /\ loc'[t].loaded.embeddings.run = diskVec.run
               /\ loc'[t].loaded.metadata.run = diskMeta.run
               /\ loc[t].rebuilt =>
                     /\ loc'[t].loaded.embeddings.rows = loc[t].embeddings
                     /\ loc'[t].loaded.metadata.rows = loc[t].metadata
               /\ (~metadata.isNone /\ metadata.run = diskMeta.run) =>
                     metadata' = metadata]_vars

\* A second load in the same process has returned the pair the first one
\* returned to the predictor.
C11_Witness ==
    \E t \in Threads :
        /\ pc[t] = "G_iter"
        /\ ~loc[t].rebuilt
        /\ ~bpEmbeddings.isNone
        /\ loc[t].loaded.embeddings = bpEmbeddings
        /\ loc[t].loaded.metadata = bpMetadata
        /\ loc[t].loaded.embeddings.run = loc[t].loaded.metadata.run
        /\ Len(bpEmbeddings.rows) > 1

\* C12: of two stored rows with equal score the one with the lower row
\* index comes first in the candidate list, and it is the one kept when the
\* cut at top_k separates them.
C12_TiesByRowOrder ==
    \A t \in Threads :
        Filtered(t) =>
            LET scores == calculate_similarity(loc[t].query, embeddings.rows)
                kept == {loc[t].indices[k] : k \in 1..Len(loc[t].indices)}
            IN  /\ \A a, b \in 1..Len(loc[t].indices) :
                      (a < b /\ loc[t].similarities[a] = loc[t].similarities[b])
                         => loc[t].indices[a] < loc[t].indices[b]
                /\ \A i \in kept : \A j \in (1..Len(scores)) \ kept :
                      scores[i] = scores[j] => i < j

\* Thread t has returned from analyze_query.
Answered(t) == pc[t] = "idle" /\ op[t] = "analyze" /\ outcome[t] # "none"

NonIncreasing(seq) == \A a, b \in 1..Len(seq) : a < b => seq[a] >= seq[b]

\* C14: the candidate list is in non-increasing order of similarity; the
\* threshold filter keeps the relative order of the candidates, the lookup
\* puts the record of the k-th surviving index in row k of the frame beside
\* the k-th surviving score, and the similar cases of every result are in
\* non-increasing order of similarity.
C14_OrderPreserved ==
    \A t \in Threads :
        /\ Filtered(t) =>
             LET Pos(i) == CHOOSE k \in 1..Len(loc[t].indices) : loc[t].indices[k] = i
             IN  /\ NonIncreasing(loc[t].similarities)
                 /\ NonIncreasing(loc[t].valid_similarities)
                 /\ \A a, b \in 1..Len(loc[t].valid_indices) :
                       a < b => Pos(loc[t].valid_indices[a]) < Pos(loc[t].valid_indices[b])
                 /\ \A a \in 1..Len(loc[t].valid_indices) :
                       loc[t].valid_similarities[a]
                          = loc[t].similarities[Pos(loc[t].valid_indices[a])]
        /\ pc[t] = "Q_predict" =>
             /\ Len(loc[t].topk_df) = Len(loc[t].valid_indices)
             /\ \A k \in 1..Len(loc[t].topk_df) :
                   /\ loc[t].topk_df[k].similarity = loc[t].valid_similarities[k]
                   /\ loc[t].topk_df[k].id = metadata.rows[loc[t].valid_indices[k]].id
        /\ "similar_cases" \in DOMAIN result[t] =>
             NonIncreasing([k \in 1..Len(result[t].similar_cases) |->
                              result[t].similar_cases[k].similarity])

\* A frame of three or more records whose order is not the row order.
C14_Witness ==
    \E t \in Threads :
        /\ pc[t] = "Q_predict"
        /\ Len(loc[t].topk_df) >= 3
        /\ loc[t].topk_df[1].similarity > loc[t].topk_df[3].similarity
        /\ \E a, b \in 1..Len(loc[t].valid_indices) :
              a < b /\ loc[t].valid_indices[a] > loc[t].valid_indices[b]

\* A raw embedding cell that is missing, NaN, empty or has fewer numeric
\* tokens than the parser asks for.
BadCell(cell) == cell.kind # "str" \/ Len(cell.tokens) < MIN_TOKENS

IsUnit(v) == Len(v) = D /\ Dot(v, v) = Unit * Unit

\* load_csv_data has returned the pair built from the rows of the table.
Ingested(t) ==
    /\ pc[t] = "P_saveVec"
    /\ loc[t].df.status = "ok" /\ loc[t].df.cols /\ Len(loc[t].df.rows) > 0

\* C15: the loop iteration over a row with a bad cell does not raise and
\* appends exactly one vector, of length D and norm 1, leaving the vectors
\* of the rows before it alone and going on to the next row; when the loop
\* is over the matrix has one row per source row and the rows of the bad
\* cells still have length D and norm 1.
C15_ParserFallback ==
    [][\A t \in Threads :
         /\ ( /\ pc[t] = "E_row" /\ loc[t].idx <= Len(loc[t].df.rows)
              /\ BadCell(loc[t].df.rows[loc[t].idx].embedding_sum)
              /\ loc'[t] # loc[t] )
            => /\ pc'[t] = "E_row"
               /\ loc'[t].idx = loc[t].idx + 1
               /\ Len(loc'[t].embeddings) = Len(loc[t].embeddings) + 1
               /\ SubSeq(loc'[t].embeddings, 1, Len(loc[t].embeddings)) = loc[t].embeddings
               /\ IsUnit(loc'[t].embeddings[Len(loc'[t].embeddings)])
         /\ (pc[t] = "E_row" /\ pc'[t] = "P_saveVec")
            => /\ Len(loc'[t].embeddings) = Len(loc[t].df.rows)
               /\ \A i \in 1..Len(loc[t].df.rows) :
                     BadCell(loc[t].df.rows[i].embedding_sum)
                        => IsUnit(loc'[t].embeddings[i])]_vars

\* The table with bad cells of every kind has been ingested, the good cells
\* between them parsed.
C15_Witness ==
    \E t \in Threads :
        /\ Ingested(t)
        /\ loc[t].df = TblCells
        /\ Len(loc[t].embeddings) = Len(TblCells.rows)
        /\ loc[t].embeddings[3] = Vec(<<0, Unit>>)
        /\ loc[t].embeddings[2] # loc[t].embeddings[4]

\* The frame has no embedding_sum column.
LacksEmbeddingColumn(table) ==
    /\ table.status = "ok" /\ table.cols /\ Len(table.rows) > 0
    /\ \A i \in 1..Len(table.rows) : table.rows[i].embedding_sum.kind = "absent"

\* C16: for a source table that is missing, unreadable, or lacks a metadata
\* column or the embedding column, load_csv_data does not raise and returns
\* the one synthetic record with a one-row matrix of norm 1.
C16_IngestionFallback ==
    \A t \in Threads :
        ( \/ loc[t].df.status \in {"missing", "unreadable"}
          \/ loc[t].df.status = "ok" /\ ~loc[t].df.cols
          \/ LacksEmbeddingColumn(loc[t].df) )
        => /\ outcome[t] # "raised"
           /\ pc[t] = "P_saveVec" =>
                 /\ loc[t].metadata = <<SampleRecord>>
                 /\ Len(loc[t].embeddings) = 1
                 /\ IsUnit(loc[t].embeddings[1])

\* The position in the source table of the row that became record rec.
SourceOf(table, rec) == CHOOSE r \in 1..Len(table.rows) : table.rows[r].id = rec.id

\* C17: the matrix load_csv_data returns has one row per surviving record,
\* and row i is the normalised vector parsed from the embedding cell of the
\* source row that became the i-th record.
C17_RowAlignment ==
    \A t \in Threads :
        Ingested(t) =>
            /\ Len(loc[t].embeddings) = Len(loc[t].metadata)
            /\ \A i \in 1..Len(loc[t].metadata) :
                  LET cell == loc[t].df.rows[SourceOf(loc[t].df, loc[t].metadata[i])].embedding_sum
                  IN  /\ i <= Len(loc[t].embeddings)
                      /\ ~BadCell(cell) =>
                            loc[t].embeddings[i]
                               = NormalizeRow(parse_embedding_string(cell.tokens).embedding)

\* C18: the metadata table a query's record lookup reads was assigned by
\* the call that assigned the matrix its similarity search read.  (By
\* value: the matrix searched has the rows of the matrix which the call
\* that assigned the metadata had assigned.)
C18_PairFromOneLoad ==
    [][\A t \in Threads :
         (pc[t] = "Q_lookup" /\ pc'[t] # "Q_lookup" /\ restarts' = restarts) =>
            /\ ~origin.partner.isNone
            /\ loc[t].searched.rows = origin.partner.rows]_vars

\* The step of thread t on which analyze_query turns a failure of the
\* provider call into its answer.
ProviderFailureConverted(t) ==
    /\ pc[t] = "idle" /\ pc'[t] = "idle"
    /\ op'[t] = "analyze"
    /\ outcome'[t] = "returned"
    /\ result'[t] = create_error_response("ProviderError")
    /\ loc'[t] # loc[t] \/ op'[t] # op[t] \/ ended' # ended

\* C19: analyze_query converts a provider failure into the error response
\* only when the retries are exhausted: the request has then called the
\* provider MAX_RETRIES times.
C19_RetryAroundQueryEmbedding ==
    [][\A t \in Threads :
         ProviderFailureConverted(t) => loc'[t].calls = MAX_RETRIES]_vars

\* The waits of thread t so far are 2^0, 2^1, ... seconds, one after each
\* failed attempt that another attempt followed.
BackoffSoFar(t) ==
    /\ Len(loc[t].slept) = loc[t].attempt
    /\ \A n \in 0..(loc[t].attempt - 1) : loc[t].slept[n + 1] = 2 ^ n

\* C20: _get_embeddings_batch calls the provider at most MAX_RETRIES times;
\* it returns the answer of the first successful call, one vector per text,
\* with no call after it and no wait after it; it has waited 2^n seconds
\* after failed attempt n when another attempt followed; it raises, with
\* nothing returned, exactly when MAX_RETRIES calls have failed, and does
\* not wait after the last of them.
C20_BoundedRetry ==
    \A t \in Threads :
        op[t] = "embed" =>
            /\ loc[t].calls <= MAX_RETRIES
            /\ BackoffSoFar(t)
            /\ pc[t] = "B_call" => loc[t].calls = loc[t].attempt
            /\ pc[t] = "B_except" => loc[t].calls = loc[t].attempt + 1
            /\ outcome[t] = "none" <=> pc[t] # "idle"
            /\ outcome[t] = "returned" =>
                  /\ loc[t].calls = loc[t].attempt + 1
                  /\ result[t].embeddings \in Responses(loc[t].texts)
            /\ outcome[t] = "raised" =>
                  /\ loc[t].calls = MAX_RETRIES
                  /\ loc[t].attempt = MAX_RETRIES - 1
                  /\ result[t] = NoResult

\* The batch is answered by the last attempt, after two failures and waits
\* of 1 and 2 seconds.
C20_Witness ==
    /\ op[1] = "embed"
    /\ outcome[1] = "returned"
    /\ loc[1].calls = MAX_RETRIES
    /\ loc[1].slept = << 1, 2 >>
    /\ Len(result[1].embeddings) = Len(loc[1].texts)

\* The failure of thread t's call has reached its caller: initialize_services
\* raises, the /projects route answers 500, analyze_query answers with the
\* error response; nothing was rebuilt or written and no pair is handed on.
Propagated(t) ==
    /\ pc'[t] = "idle"
    /\ UNCHANGED << disk, memory, cache, runs >>
    /\ loc'[t].loaded.isNone
    /\ op[t] = "init" => outcome'[t] = "raised"
    /\ op[t] = "projects" => outcome'[t] = "http500"
    /\ op[t] = "analyze" => outcome'[t] = "returned" /\ IsErrorResponse(result'[t])

\* C21: a step of prepare_vector_database at np.save or pickle.dump either
\* writes the file or is a failure that propagates; a step of
\* load_vector_database at np.load or pickle.load either reads the file that
\* exists or is a failure that propagates.  No such failure is followed by
\* a rebuild, a fallback dataset or a returned pair.
C21_IOFailurePropagates ==
    [][\A t \in Threads :
         /\ (pc[t] = "P_saveVec" /\ pc'[t] # "P_saveVec" /\ restarts' = restarts) =>
               \/ pc'[t] = "P_saveMeta" /\ diskVec' = File(loc[t].run, np_save(loc[t].embeddings))
               \/ Propagated(t)
         /\ (pc[t] = "P_saveMeta" /\ pc'[t] # "P_saveMeta" /\ restarts' = restarts) =>
               \/ pc'[t] = "P_setEmb" /\ diskMeta' = File(loc[t].run, pickle_dump(loc[t].metadata))
               \/ Propagated(t)
         /\ (pc[t] = "L_loadVec" /\ pc'[t] # "L_loadVec" /\ restarts' = restarts) =>
               \/ pc'[t] = "L_loadMeta" /\ embeddings'.rows = np_load(diskVec.content)
               \/ Propagated(t)
         /\ (pc[t] = "L_loadMeta" /\ pc'[t] # "L_loadMeta" /\ restarts' = restarts) =>
               \/ /\ pc'[t] \in {"Q_search", "G_iter"}
                  /\ metadata'.rows = pickle_load(diskMeta.content)
               \/ Propagated(t)]_vars

\* GET /projects has answered 500 because metadata.pkl, which exists, could
\* not be read after embeddings.npy was read.
C21_Witness ==
    /\ pc[1] = "idle"
    /\ op[1] = "projects"
    /\ outcome[1] = "http500"
    /\ ~diskVec.isNone /\ ~diskMeta.isNone
    /\ ~embeddings.isNone /\ metadata.isNone

\* The source ids of a sequence of rows.
Ids(rows) == [k \in 1..Len(rows) |-> rows[k].id]

\* The row filter in the words of the claim, on the raw cells of a source
\* row: a missing or non-numeric budget counts as 0, a missing text as ''.
SurvivesAsClaimed(r) ==
    /\ (IF r.initial_budget.isnum THEN r.initial_budget.v ELSE 0) > 0
    /\ \/ ~r.summary_text.isnan /\ r.summary_text.len > 10
       \/ ~r.issue_text.isnan /\ r.issue_text.len > 10

\* C22: once both filters of preprocess_csv_data have run, the frame holds
\* exactly the source rows whose coerced initial_budget is greater than 0
\* and of which at least one text is longer than 10, in source order; no
\* raw cell makes the coercion raise (the call raises, if at all, past the
\* filters and with no row left).
C22_RowFilter ==
    \A t \in Threads :
        op[t] = "preprocess" =>
            /\ outcome[t] = "raised" => loc[t].metadata = << >>
            /\ pc[t] \in {"M_budget", "M_clean"} =>
                  \A k \in 1..Len(loc[t].metadata) :
                     loc[t].metadata[k].initial_budget \in Int
            /\ pc[t] \in {"M_rating", "M_year", "idle"} =>
                  Ids(loc[t].metadata) = Ids(SelectSeq(loc[t].df.rows, SurvivesAsClaimed))

\* A table whose rows with a text of length exactly 10 and no other text,
\* with budget 0 and with a non-numeric budget were dropped and whose other
\* rows were kept.
C22_Witness ==
    /\ op[1] = "preprocess"
    /\ pc[1] = "idle"
    /\ loc[1].df = TblDrop
    /\ Ids(loc[1].metadata) = << 3, 5 >>

\* The loop of process_csv_embeddings, at a row whose cell is a string,
\* appends a vector.
ParsesRow(t) ==
    /\ pc[t] = "E_row" /\ pc'[t] = "E_row"
    /\ loc[t].idx <= Len(loc[t].df.rows)
    /\ loc[t].df.rows[loc[t].idx].embedding_sum.kind = "str"
    /\ loc'[t].idx = loc[t].idx + 1

\* C23: for a cell with at least MIN_TOKENS numeric tokens the vector the
\* parser hands to the loop has length exactly D, and its entry j is token j
\* of the cell for j up to the number of tokens and 0 beyond it (so the
\* first D tokens when there are more than D); with MIN_TOKENS - 1 tokens
\* or fewer the row gets the substitute vector instead.
C23_TruncateOrPad ==
    [][\A t \in Threads :
         ParsesRow(t) =>
            LET tokens == loc[t].df.rows[loc[t].idx].embedding_sum.tokens
                vector == loc'[t].embeddings[Len(loc'[t].embeddings)]
            IN  /\ Len(loc'[t].embeddings) = Len(loc[t].embeddings) + 1
                /\ Len(vector) = D
                /\ IF Len(tokens) >= MIN_TOKENS
                   THEN \A j \in 1..D :
                           vector[j] = IF j <= Len(tokens) THEN tokens[j] ELSE 0
                   ELSE vector \in RandomUnitVectors]_vars

\* The loop is past the rows of the table of cells: the cell with D + 2
\* tokens was cut to its first D, the cell with exactly MIN_TOKENS tokens
\* was padded, the cell with exactly D tokens was taken as it is, and the
\* cell with MIN_TOKENS - 1 tokens was replaced.
C23_Witness ==
    /\ pc[1] = "E_row"
    /\ loc[1].df = TblCells
    /\ loc[1].idx = Len(TblCells.rows) + 1
    /\ loc[1].embeddings[1] = SubSeq(CellLong.tokens, 1, D)
    /\ loc[1].embeddings[3] = CellMin.tokens \o Zeros(D - MIN_TOKENS)
    /\ loc[1].embeddings[7] = CellFull.tokens
    /\ loc[1].embeddings[6] \in RandomUnitVectors

\* The rating in the words of the claim, from the raw error_rate cell of a
\* source row, in units of 1/100.
RatingAsClaimed(raw) ==
    LET coerced == IF raw.isnum THEN raw.v ELSE 0
    IN  IF coerced = 0 THEN "B"
        ELSE IF coerced < 10 THEN "A"
        ELSE IF coerced < 30 THEN "B"
        ELSE IF coerced < 50 THEN "C"
        ELSE "D"

\* The source row of table with the given id.
SourceRow(table, id) ==
    table.rows[CHOOSE k \in 1..Len(table.rows) : table.rows[k].id = id]

\* C24: the frame has no rating column until both filters have run; from
\* the rating statement on every row of the frame, which are the surviving
\* rows, has one rating, which is A, B, C or D and is the grade the claim
\* gives for the coerced error_rate of its source row.
C24_Rating ==
    \A t \in Threads :
        op[t] = "preprocess" =>
            \A k \in 1..Len(loc[t].metadata) :
                IF pc[t] \in {"M_coerce", "M_budget", "M_clean", "M_text", "M_rating"}
                THEN "rating" \notin DOMAIN loc[t].metadata[k]
                ELSE /\ "rating" \in DOMAIN loc[t].metadata[k]
                     /\ loc[t].metadata[k].rating \in {"A", "B", "C", "D"}
                     /\ loc[t].metadata[k].rating =
                           RatingAsClaimed(SourceRow(loc[t].df, loc[t].metadata[k].id).error_rate)

\* preprocess_csv_data has returned a record whose error rate of exactly 0.3
\* was graded C.
C24_Witness ==
    /\ op[1] = "preprocess"
    /\ outcome[1] = "returned"
    /\ Len(loc[1].metadata) = 1
    /\ loc[1].metadata[1].error_rate = 30
    /\ loc[1].metadata[1].rating = "C"

\* C25: a request of analyze_query has called the embedding provider only
\* if a key of the provider is configured: with the variable unset or with
\* the placeholder no call is made (the query vector is then the sample
\* generator's).
C25_NoKeyNoProviderCall ==
    \A t \in Threads :
        (op[t] = "analyze" /\ loc[t].calls > 0) => apiKey = "real"

\* The candidates of a query that survive the threshold, as row numbers.
SurvivingIndices(query) ==
    LET found == find_similar_projects(query, embeddings.rows, TOPK, ties)
    IN  Masked(found.indices, valid_mask(found.similarities))

\* Some candidate in indices lies beyond the rows of the metadata in memory.
BeyondMetadata(indices) ==
    /\ ~metadata.isNone
    /\ \E k \in 1..Len(indices) : indices[k] > Len(metadata.rows)

\* C26: when a surviving candidate lies beyond the metadata, the lookup step
\* ends analyze_query with the error response (no similar case, no
\* prediction), and the pair on disk, in the DataProcessor and in the
\* predictor is as before.
C26_LookupOutOfRange ==
    [][\A t \in Threads :
         ( /\ pc[t] = "Q_lookup" /\ pc'[t] # "Q_lookup" /\ restarts' = restarts
           /\ BeyondMetadata(loc[t].valid_indices) )
         => /\ pc'[t] = "idle"
            /\ outcome'[t] = "returned"
            /\ IsErrorResponse(result'[t])
            /\ UNCHANGED << disk, memory, cache >>]_vars

\* A query whose surviving candidates include a row beyond the metadata and
\* a row within it (the matrix has more rows than the metadata) has been
\* answered with the error response; the predictor holds the loaded pair,
\* so the load of this call, if any, had completed.
C26_Witness ==
    /\ pc[1] = "idle" /\ op[1] = "analyze" /\ outcome[1] = "returned"
    /\ IsErrorResponse(result[1])
    /\ Len(loc[1].query) = D
    /\ ~embeddings.isNone /\ ~metadata.isNone
    /\ ~bpEmbeddings.isNone /\ ~bpMetadata.isNone
    /\ BeyondMetadata(SurvivingIndices(loc[1].query))
    /\ \E k \in 1..Len(SurvivingIndices(loc[1].query)) :
          SurvivingIndices(loc[1].query)[k] <= Len(metadata.rows)

\* Thread t's call of prepare_vector_database or load_vector_database ends
\* on a failure of np.save, pickle.dump, np.load or pickle.load.
CallFails(t) ==
    /\ pc[t] \in {"P_saveVec", "P_saveMeta", "L_loadVec", "L_loadMeta"}
    /\ Returns(t)

\* The DataProcessor holds nothing, or a matrix and a metadata table that one
\* call assigned together.
HoldsWholePair ==
    \/ embeddings.isNone /\ metadata.isNone
    \/ /\ ~embeddings.isNone /\ ~metadata.isNone
       /\ origin.partner = embeddings

\* C27: when a call of prepare_vector_database or load_vector_database
\* fails, the DataProcessor has not been given one of the two without the
\* other: it holds what it held before the call, nothing or a whole pair
\* (requests are served one at a time).
C27_FailedCallKeepsPair ==
    [][(\E t \in Threads : CallFails(t)) => HoldsWholePair']_vars

====
